---- MODULE Spec2Model ----
(***************************************************************************)
(* A model of surrealdb/http.py: the SurrealHTTP client.  Strings that the *)
(* code takes apart (thing references, URIs) are sequences of one-letter   *)
(* strings; everything else is an opaque token.  A call of an operation is *)
(* a coroutine frame: it runs up to the request it issues, is suspended    *)
(* while the transport works, and is resumed with the transport's reply.   *)
(***************************************************************************)
EXTENDS Integers, Sequences, FiniteSets, TLC

\* ------------------------------------------------------------------ bounds

\* Longest thing reference a caller passes.
MaxThingLen == 3
\* Most envelopes in a response list of the server.
MaxEnvelopes == 2
\* Number of coroutines that may be in flight over one client.
MaxTasks == 2
\* close() calls are counted up to this many ("this many or more").
MaxCloses == 2

\* ------------------------------------------------------------------ inputs

Chars == {"t", "i", ":"}

RECURSIVE StringsOfLen(_)
StringsOfLen(n) ==
    IF n = 0 THEN {<<>>}
    ELSE {Append(s, ch) : s \in StringsOfLen(n - 1), ch \in Chars}

Things == UNION {StringsOfLen(n) : n \in 0..MaxThingLen}

Tasks == 1..MaxTasks

\* Documents a caller passes as data (None is a legal data of create).
Docs == {"None", "doc"}
VarsArgs == {"None", "vars"}
Sqls == {"sql"}

Namespaces == {"ns1", "ns2"}
Databases == {"db1"}

\* ------------------------------------------------------------ JSON values

JNull == [kind |-> "null", items |-> <<>>, keys |-> {}, scalar |-> ""]
JList(items) == [kind |-> "list", items |-> items, keys |-> {}, scalar |-> ""]
JObject(keys) == [kind |-> "object", items |-> <<>>, keys |-> keys, scalar |-> ""]
JOpaque(id) == [kind |-> "opaque", items |-> <<>>, keys |-> {}, scalar |-> id]

\* An envelope of the server: time, status, result.
Envelopes ==
    {[time |-> "0s", status |-> "OK", result |-> "r1"],
     [time |-> "0s", status |-> "ERR", result |-> "r2"]}

RECURSIVE EnvelopeLists(_)
EnvelopeLists(n) ==
    IF n = 0 THEN {<<>>}
    ELSE {Append(s, e) : s \in EnvelopeLists(n - 1), e \in Envelopes}

JsonValues ==
    {JList(l) : l \in UNION {EnvelopeLists(n) : n \in 0..MaxEnvelopes}}
        \cup {JNull, JObject({}), JObject({"code", "token"})}

\* What the transport hands back for a request: a failure of its own, or the
\* text of the response body, which is the text of a JSON value or is not.
TransportError == [kind |-> "error", wellformed |-> FALSE, doc |-> JNull]
Garbage == [kind |-> "text", wellformed |-> FALSE, doc |-> JNull]
TextOf(v) == [kind |-> "text", wellformed |-> TRUE, doc |-> v]

Replies == {TransportError, Garbage} \cup {TextOf(v) : v \in JsonValues}

ConcurrentReplies ==
    {TransportError, Garbage, TextOf(JList(<<>>)),
     TextOf(JList(<<[time |-> "0s", status |-> "OK", result |-> "r1"]>>))}

\* ------------------------------------------------------- Python primitives

None == [some |-> FALSE, val |-> <<>>]
Some(s) == [some |-> TRUE, val |-> s]

\* ch in s
Contains(s, ch) == \E i \in DOMAIN s : s[i] = ch

\* str.split(sep) for a one-letter separator: every occurrence splits.
RECURSIVE split(_, _)
split(s, sep) ==
    IF ~Contains(s, sep) THEN <<s>>
    ELSE LET i == CHOOSE k \in DOMAIN s :
                    s[k] = sep /\ \A j \in 1..(k - 1) : s[j] # sep
         IN <<SubSeq(s, 1, i - 1)>> \o split(SubSeq(s, i + 1, Len(s)), sep)

\* bool(x) of an optional string: None and "" are falsy.
Truthy(x) == x.some /\ x.val # <<>>

\* not response, of a parsed JSON value: [], {} and None are falsy.
Falsy(v) ==
    \/ v.kind = "null"
    \/ v.kind = "list" /\ v.items = <<>>
    \/ v.kind = "object" /\ v.keys = {}

\* json.dumps(data): the JSON text of a document.
json_dumps(data) == [kind |-> "json", val |-> data]

\* json.loads(text): the value, or a decode error.
json_loads(text) ==
    IF text.wellformed THEN [ok |-> TRUE, value |-> text.doc, error |-> ""]
    ELSE [ok |-> FALSE, value |-> JNull, error |-> "JSONDecodeError"]

\* ------------------------------------------------------------------- state

VARIABLES
    ctor,           \* the arguments SurrealHTTP was constructed with
    self,           \* the client's fields
    session,        \* the aiohttp.ClientSession behind self._session
    scope,          \* "none", "inside" or "exited": the async with block
    closes,         \* how often close() has returned, up to MaxCloses
    calls,          \* per task: the frame of its current call
    wire,           \* per task: the requests its current call gave the session
    net             \* per task: the transport's reply, not yet consumed

vars == <<ctor, self, session, scope, closes, calls, wire, net>>

NoReply == [has |-> FALSE, reply |-> TransportError]
NoBody == [kind |-> "none", val |-> ""]

IdleFrame ==
    [pc |-> "idle", op |-> "", thing |-> <<>>, data |-> "", sql |-> "",
     vars |-> "", table |-> <<>>, record_id |-> None, result |-> JNull,
     error |-> ""]

\* Faulty __init__: the ownership test inverted.
init_inverted(args) ==
    [url |-> args.url,
     namespace |-> args.namespace,
     database |-> args.database,
     username |-> args.username,
     password |-> args.password,
     should_close_session |-> (args.session # "None")]

\* SurrealHTTP.__init__: the fields, by the session argument.
init(args) ==
    [url |-> args.url,
     namespace |-> args.namespace,
     database |-> args.database,
     username |-> args.username,
     password |-> args.password,
     should_close_session |-> (args.session = "None")]

CtorArgs ==
    [url : {<<"http://db">>}, namespace : Namespaces, database : Databases,
     username : {"root"}, password : {"secret"}, session : {"None", "supplied"}]

Init ==
    /\ ctor \in CtorArgs
    /\ self = init(ctor)
    /\ session = [closed |-> FALSE, close_called |-> FALSE]
    /\ scope = "none"
    /\ closes = 0
    /\ calls = [c \in Tasks |-> IdleFrame]
    /\ wire = [c \in Tasks |-> <<>>]
    /\ net = [c \in Tasks |-> NoReply]

\* --------------------------------------------------------------- lifecycle

\* Faulty close(): the session is closed whoever owns it.
session_close_always(should_close, s) ==
    [closed |-> TRUE, close_called |-> TRUE]

\* ClientSession.close(), as close() calls it when the client owns the session.
session_close(should_close, s) ==
    IF should_close THEN [closed |-> TRUE, close_called |-> TRUE] ELSE s

close ==
    /\ session' = session_close(self.should_close_session, session)
    /\ closes' = IF closes < MaxCloses THEN closes + 1 ELSE closes
    /\ UNCHANGED <<ctor, self, scope, calls, wire, net>>

aenter ==
    /\ scope = "none"
    /\ scope' = "inside"
    /\ UNCHANGED <<ctor, self, session, closes, calls, wire, net>>

aexit ==
    /\ scope = "inside"
    /\ scope' = "exited"
    /\ session' = session_close(self.should_close_session, session)
    /\ closes' = IF closes < MaxCloses THEN closes + 1 ELSE closes
    /\ UNCHANGED <<ctor, self, calls, wire, net>>

\* ---------------------------------------------------------------- requests

\* Faulty headers: NS and DB exchanged.
headers_swapped(me) ==
    [headers |-> [NS |-> me.database, DB |-> me.namespace,
                  Accept |-> "application/json",
                  ContentType |-> "application/json"],
     auth |-> [login |-> me.username, password |-> me.password]]

\* _generate_headers_and_auth
generate_headers_and_auth(me) ==
    [headers |-> [NS |-> me.namespace, DB |-> me.database,
                  Accept |-> "application/json",
                  ContentType |-> "application/json"],
     auth |-> [login |-> me.username, password |-> me.password]]

\* The arguments _request gives self._session.request.
request(me, method, uri, data, params) ==
    LET ha == generate_headers_and_auth(me)
    IN [method |-> method, url |-> me.url \o uri, data |-> data,
        params |-> params, headers |-> ha.headers, auth |-> ha.auth]

\* table, record_id = thing.split(":") if ":" in thing else (thing, None)
thing_split(thing) ==
    IF Contains(thing, ":")
    THEN LET parts == split(thing, ":")
         IN IF Len(parts) = 2
            THEN [ok |-> TRUE, table |-> parts[1], record_id |-> Some(parts[2])]
            ELSE [ok |-> FALSE, table |-> <<>>, record_id |-> None]
    ELSE [ok |-> TRUE, table |-> thing, record_id |-> None]

\* f"/key/{table}/{record_id}" if record_id else f"/key/{table}"
key_uri(table, record_id) ==
    IF Truthy(record_id)
    THEN <<"/key/">> \o table \o <<"/">> \o record_id.val
    ELSE <<"/key/">> \o table

Callable(c) == calls[c].pc = "idle"

\* The call gives the session one request and is suspended; a closed session
\* refuses the request at once (aiohttp: RuntimeError, "Session is closed").
Issue(c, frame, req) ==
    /\ wire' = [wire EXCEPT ![c] = <<req>>]
    /\ net' = [net EXCEPT ![c] = NoReply]
    /\ calls' = [calls EXCEPT ![c] =
            IF session.closed
            THEN [frame EXCEPT !.pc = "raised", !.error = "RuntimeError"]
            ELSE [frame EXCEPT !.pc = "awaiting"]]
    /\ UNCHANGED <<ctor, self, session, scope, closes>>

\* The call fails before any request.
Raise(c, frame, error) ==
    /\ wire' = [wire EXCEPT ![c] = <<>>]
    /\ net' = [net EXCEPT ![c] = NoReply]
    /\ calls' = [calls EXCEPT ![c] = [frame EXCEPT !.pc = "raised", !.error = error]]
    /\ UNCHANGED <<ctor, self, session, scope, closes>>

signup(c, v) ==
    /\ Callable(c)
    /\ Issue(c, [IdleFrame EXCEPT !.op = "signup", !.vars = v],
             request(self, "POST", <<"/signup">>, json_dumps(v), "None"))

signin(c, v) ==
    /\ Callable(c)
    /\ Issue(c, [IdleFrame EXCEPT !.op = "signin", !.vars = v],
             request(self, "POST", <<"/signin">>, json_dumps(v), "None"))

query(c, sql, v) ==
    /\ Callable(c)
    /\ Issue(c, [IdleFrame EXCEPT !.op = "query", !.sql = sql, !.vars = v],
             request(self, "POST", <<"/sql">>, [kind |-> "raw", val |-> sql], v))

\* The five record operations begin alike: the split, then the request.
KeyCall(c, op, method, thing, data, body) ==
    LET parts == thing_split(thing)
        frame == [IdleFrame EXCEPT !.op = op, !.thing = thing, !.data = data,
                                   !.table = parts.table,
                                   !.record_id = parts.record_id]
    IN /\ Callable(c)
       /\ IF parts.ok
          THEN Issue(c, frame,
                     request(self, method, key_uri(parts.table, parts.record_id),
                             body, "None"))
          ELSE Raise(c, frame, "ValueError")

select(c, thing) == KeyCall(c, "select", "GET", thing, "", NoBody)

create(c, thing, data) ==
    KeyCall(c, "create", "POST", thing, data, json_dumps(data))

update(c, thing, data) ==
    KeyCall(c, "update", "PUT", thing, data, json_dumps(data))

patch(c, thing, data) ==
    KeyCall(c, "patch", "PATCH", thing, data, json_dumps(data))

delete(c, thing) == KeyCall(c, "delete", "DELETE", thing, "", NoBody)

\* --------------------------------------------------------------- responses

Return(value) == [raised |-> FALSE, result |-> value, error |-> ""]
Fail(error) == [raised |-> TRUE, result |-> JNull, error |-> error]

\* Faulty unwrapping: response[-1]["result"].
last_result(response) ==
    CASE response.kind = "list" /\ response.items # <<>> ->
            Return(JOpaque(response.items[Len(response.items)].result))
      [] response.kind = "list" -> Fail("IndexError")
      [] response.kind = "object" -> Fail("KeyError")
      [] OTHER -> Fail("TypeError")

\* response[0]["result"]
first_result(response) ==
    CASE response.kind = "list" /\ response.items # <<>> ->
            Return(JOpaque(response.items[1].result))
      [] response.kind = "list" -> Fail("IndexError")
      [] response.kind = "object" -> Fail("KeyError")
      [] OTHER -> Fail("TypeError")

\* Faulty check list: update checks for not-found too.
ChecksNotFound_update(op) == op \in {"select", "create", "update"}

\* The operations that raise SurrealException on an empty response.
ChecksNotFound(op) == op \in {"select", "create"}

\* The operations that return what _request returned.
ReturnsResponse(op) == op \in {"signup", "signin", "query", "delete"}

\* Faulty check: "if not response and record_id" (an empty id passes).
after_request_truthy(op, record_id, response) ==
    IF op \in {"signup", "signin", "query", "delete"} THEN Return(response)
    ELSE IF op \in {"select", "create"} /\ Falsy(response) /\ Truthy(record_id)
         THEN Fail("SurrealException")
         ELSE first_result(response)

\* What an operation does with the value _request returned.
after_request(op, record_id, response) ==
    IF ReturnsResponse(op) THEN Return(response)
    ELSE IF ChecksNotFound(op) /\ Falsy(response) /\ record_id.some
         THEN Fail("SurrealException")
         ELSE first_result(response)

\* The rest of _request once the transport has replied, then the operation's
\* own code.
resume(frame, reply) ==
    IF reply.kind = "error" THEN Fail("ClientError")
    ELSE LET parsed == json_loads(reply)
         IN IF parsed.ok
            THEN after_request(frame.op, frame.record_id, parsed.value)
            ELSE Fail(parsed.error)

\* Faulty transport: a call may be resumed with the reply to another call.
response_for_any(c, pending) ==
    IF \E d \in DOMAIN pending : d # c /\ pending[d].has
    THEN pending[CHOOSE d \in DOMAIN pending : d # c /\ pending[d].has].reply
    ELSE pending[c].reply

\* The reply a suspended call is resumed with: the one to its own request.
response_for(c, pending) == pending[c].reply

\* The transport answers the request of task c.
Respond(c, reply) ==
    /\ calls[c].pc = "awaiting"
    /\ ~net[c].has
    /\ net' = [net EXCEPT ![c] = [has |-> TRUE, reply |-> reply]]
    /\ UNCHANGED <<ctor, self, session, scope, closes, calls, wire>>

\* Task c is resumed and runs to its end.
Resume(c) ==
    /\ calls[c].pc = "awaiting"
    /\ net[c].has
    /\ LET out == resume(calls[c], response_for(c, net))
       IN calls' = [calls EXCEPT ![c] =
               [@ EXCEPT !.pc = IF out.raised THEN "raised" ELSE "returned",
                         !.result = out.result,
                         !.error = out.error]]
    /\ UNCHANGED <<ctor, self, session, scope, closes, wire, net>>

\* The caller takes the outcome of the call of task c; the frame is gone.
Collect(c) ==
    /\ calls[c].pc \in {"returned", "raised"}
    /\ calls' = [calls EXCEPT ![c] = IdleFrame]
    /\ wire' = [wire EXCEPT ![c] = <<>>]
    /\ net' = [net EXCEPT ![c] = NoReply]
    /\ UNCHANGED <<ctor, self, session, scope, closes>>

\* ---------------------------------------------------------- specifications

\* One caller that awaits each call before the next.
Next ==
    \/ close
    \/ aenter
    \/ aexit
    \/ Callable(1) /\ \E v \in VarsArgs : signup(1, v)
    \/ Callable(1) /\ \E v \in VarsArgs : signin(1, v)
    \/ Callable(1) /\ \E q \in Sqls, v \in VarsArgs : query(1, q, v)
    \/ Callable(1) /\ \E t \in Things : select(1, t)
    \/ Callable(1) /\ \E t \in Things, d \in Docs : create(1, t, d)
    \/ Callable(1) /\ \E t \in Things, d \in Docs : update(1, t, d)
    \/ Callable(1) /\ \E t \in Things, d \in Docs : patch(1, t, d)
    \/ Callable(1) /\ \E t \in Things : delete(1, t)
    \/ \E r \in Replies : Respond(1, r)
    \/ Resume(1)
    \/ Collect(1)

Spec == Init /\ [][Next]_vars

\* Several tasks with calls in flight over the same client, each on the
\* record t:i.
NextConcurrent ==
    \/ close
    \/ \E c \in Tasks : Callable(c) /\ query(c, "sql", "vars")
    \/ \E c \in Tasks : Callable(c) /\ select(c, <<"t", ":", "i">>)
    \/ \E c \in Tasks : Callable(c) /\ update(c, <<"t", ":", "i">>, "doc")
    \/ \E c \in Tasks : Callable(c) /\ delete(c, <<"t", ":", "i">>)
    \/ \E c \in Tasks, r \in ConcurrentReplies : Respond(c, r)
    \/ \E c \in Tasks : Resume(c)
    \/ \E c \in Tasks : Collect(c)

SpecConcurrent == Init /\ [][NextConcurrent]_vars

\* ------------------------------------------------------------------ claims
\* The vocabulary of the claims, stated without the code's own operators.

HasColon(s) == \E i \in DOMAIN s : s[i] = ":"
FirstColon(s) == CHOOSE i \in DOMAIN s : s[i] = ":" /\ \A j \in 1..(i - 1) : s[j] # ":"
BeforeColon(s) == SubSeq(s, 1, FirstColon(s) - 1)
AfterColon(s) == SubSeq(s, FirstColon(s) + 1, Len(s))

RecordOps == {"select", "create", "update", "patch", "delete"}

Finished(c) == calls[c].pc \in {"returned", "raised"}
Started(c) == calls[c].pc # "idle"

\* The call of task c got a response body that parsed as JSON.
HasParsed(c) == net[c].has /\ net[c].reply.kind = "text" /\ net[c].reply.wellformed
Parsed(c) == net[c].reply.doc

\* An empty response: nothing in it.
IsEmpty(v) == v \in {JList(<<>>), JObject({}), JNull}

Unclassified == {"IndexError", "KeyError", "TypeError"}

\* C1: each record operation decomposes a thing with a colon into (the part
\* before the first colon, the part after it), also with two or more colons;
\* a thing without a colon has no record id and its path has no id segment.
C1_SplitOnFirstColon ==
    \A c \in Tasks :
        (Started(c) /\ calls[c].op \in RecordOps) =>
            LET thing == calls[c].thing
            IN IF HasColon(thing)
               THEN /\ calls[c].error # "ValueError"
                    /\ calls[c].table = BeforeColon(thing)
                    /\ calls[c].record_id = Some(AfterColon(thing))
               ELSE /\ calls[c].table = thing
                    /\ calls[c].record_id = None
                    /\ \A i \in DOMAIN wire[c] :
                           wire[c][i].url = ctor.url \o <<"/key/">> \o thing

\* C2: a finished select or create has raised the not-found error exactly
\* when its thing names a record id and the parsed response is empty; a
\* table-only call with an empty response has not raised it.
C2_NotFoundIffRecordAndEmpty ==
    \A c \in Tasks :
        (Finished(c) /\ calls[c].op \in {"select", "create"}) =>
            ((calls[c].pc = "raised" /\ calls[c].error = "SurrealException")
                <=> (HasColon(calls[c].thing) /\ HasParsed(c) /\ IsEmpty(Parsed(c))))

C2_Witness ==
    /\ calls[1].op = "create"
    /\ calls[1].thing = <<"t", ":", "i">>
    /\ HasParsed(1) /\ Parsed(1) = JList(<<>>)
    /\ calls[1].error = "SurrealException"

\* C3: once the async with block is left, a session the client created is
\* closed and a session the caller supplied is still open, whatever ran and
\* whatever failed inside the block.
C3_ScopeExitClosesOwned ==
    scope = "exited" =>
        /\ ctor.session = "None" => session.closed
        /\ ctor.session = "supplied" => ~session.closed

C3_Witness ==
    /\ scope = "exited"
    /\ ctor.session = "None"
    /\ session.closed
    /\ calls[1].pc = "raised"
    /\ calls[1].error = "SurrealException"

\* C4: after one close() or more, the owned session is closed and the
\* ownership flag and the connection identity are as constructed; close() on
\* a client with a supplied session never touches the session.
C4_CloseIdempotent ==
    /\ closes >= 1 =>
          /\ session.closed = (ctor.session = "None")
          /\ self = init(ctor)
          /\ self.should_close_session = (ctor.session = "None")
    /\ ctor.session = "supplied" => (~session.close_called /\ ~session.closed)

C4_Witness ==
    /\ closes = MaxCloses
    /\ ctor.session = "None"
    /\ session.closed
    /\ calls[1].pc = "raised"
    /\ calls[1].error = "RuntimeError"

\* C5: every request of every operation carries NS and DB as given at
\* construction, Accept and Content-Type application/json, and Basic Auth of
\* the constructor's username and password; the identity never changes.
C5_HeadersFromConstruction ==
    /\ \A c \in Tasks : \A i \in DOMAIN wire[c] :
          /\ wire[c][i].headers =
                [NS |-> ctor.namespace, DB |-> ctor.database,
                 Accept |-> "application/json",
                 ContentType |-> "application/json"]
          /\ wire[c][i].auth = [login |-> ctor.username, password |-> ctor.password]
    /\ <<self.url, self.namespace, self.database, self.username, self.password>>
          = <<ctor.url, ctor.namespace, ctor.database, ctor.username, ctor.password>>

C5_Witness ==
    /\ closes >= 1
    /\ wire[1] # <<>>
    /\ calls[1].op = "signin"
    /\ wire[1][1].headers.NS = "ns2"

MethodOf(op) ==
    CASE op \in {"signup", "signin", "query", "create"} -> "POST"
      [] op = "select" -> "GET"
      [] op = "update" -> "PUT"
      [] op = "patch" -> "PATCH"
      [] op = "delete" -> "DELETE"

\* The path of the mapping table: the id segment is there whenever the thing
\* has a colon.
PathOf(op, thing) ==
    CASE op = "signup" -> <<"/signup">>
      [] op = "signin" -> <<"/signin">>
      [] op = "query" -> <<"/sql">>
      [] OTHER ->
            IF HasColon(thing)
            THEN <<"/key/">> \o BeforeColon(thing) \o <<"/">> \o AfterColon(thing)
            ELSE <<"/key/">> \o thing

\* C6: every request has the method and the path of the mapping table, the
\* path of a record operation being /key/{table}/{record_id} whenever the
\* thing has a colon (also with nothing after it) and /key/{table} otherwise;
\* query sends the raw SQL as body and vars as query parameters.
C6_MethodAndPath ==
    \A c \in Tasks : \A i \in DOMAIN wire[c] :
        /\ wire[c][i].method = MethodOf(calls[c].op)
        /\ wire[c][i].url = ctor.url \o PathOf(calls[c].op, calls[c].thing)
        /\ calls[c].op = "query" =>
              /\ wire[c][i].data = [kind |-> "raw", val |-> calls[c].sql]
              /\ wire[c][i].params = calls[c].vars

\* C7: with a parsed response R, delete, query, signup and signin return R
\* itself, whatever is in it; select, create, update and patch, when they
\* return, return the result of the first envelope of R.
C7_RawOrFirstResult ==
    \A c \in Tasks :
        (Finished(c) /\ HasParsed(c)) =>
            IF calls[c].op \in {"delete", "query", "signup", "signin"}
            THEN calls[c].pc = "returned" /\ calls[c].result = Parsed(c)
            ELSE calls[c].pc = "returned" =>
                    /\ Parsed(c).kind = "list"
                    /\ Parsed(c).items # <<>>
                    /\ calls[c].result = JOpaque(Parsed(c).items[1].result)

C7_Witness ==
    /\ calls[1].op = "patch"
    /\ calls[1].pc = "returned"
    /\ HasParsed(1)
    /\ Len(Parsed(1).items) = 2
    /\ Parsed(1).items[1].result # Parsed(1).items[2].result

\* C8: a finished call has issued exactly one request; a transport failure or
\* a body that is not JSON has made the call fail.
C8_ExactlyOneRequest ==
    \A c \in Tasks :
        Finished(c) =>
            /\ Len(wire[c]) = 1
            /\ (net[c].has /\ ~HasParsed(c)) => calls[c].pc = "raised"

\* The outcome the mapping table gives a call on a record, by the reply to
\* its own request.
OutcomeOf(op, reply) ==
    IF reply.kind = "error" THEN <<"raised", "ClientError", JNull>>
    ELSE IF ~reply.wellformed THEN <<"raised", "JSONDecodeError", JNull>>
    ELSE IF op \in {"query", "delete"} THEN <<"returned", "", reply.doc>>
    ELSE IF reply.doc.items = <<>>
         THEN <<"raised", IF op = "select" THEN "SurrealException" ELSE "IndexError",
                JNull>>
         ELSE <<"returned", "", JOpaque(reply.doc.items[1].result)>>

OwnOutcome ==
    \A c \in Tasks :
        (Finished(c) /\ net[c].has) =>
            <<calls[c].pc, calls[c].error, calls[c].result>>
                = OutcomeOf(calls[c].op, net[c].reply)

\* A step of one task leaves the client and every other task as they were.
NoInterference ==
    \A c \in Tasks :
        calls'[c] # calls[c] =>
            /\ self' = self
            /\ session' = session
            /\ \A d \in Tasks \ {c} :
                  calls'[d] = calls[d] /\ wire'[d] = wire[d] /\ net'[d] = net[d]

\* C9: with calls in flight together, each finished call has the outcome of
\* the reply to its own request, and no step of a call, failing or not,
\* changes the client or another call.
C9_IndependentCalls == []OwnOutcome /\ [][NoInterference]_vars

C9_Witness ==
    /\ calls[1].pc = "raised" /\ calls[1].error = "SurrealException"
    /\ calls[2].pc = "returned" /\ calls[2].op = "select"
    /\ net[1].has /\ net[2].has

\* C10: update, patch, delete, query, signup and signin never raise the
\* not-found error; a record-scoped update or patch with an empty response
\* fails unclassified, and a delete with an empty response returns it.
C10_NoOtherNotFound ==
    \A c \in Tasks :
        (Finished(c) /\ calls[c].op \notin {"select", "create"}) =>
            /\ calls[c].error # "SurrealException"
            /\ (HasParsed(c) /\ IsEmpty(Parsed(c))) =>
                  /\ (calls[c].op \in {"update", "patch"} /\ HasColon(calls[c].thing)) =>
                        (calls[c].pc = "raised" /\ calls[c].error \in Unclassified)
                  /\ calls[c].op = "delete" =>
                        (calls[c].pc = "returned" /\ calls[c].result = Parsed(c))

C10_Witness ==
    /\ calls[1].op = "update"
    /\ calls[1].thing = <<"t", ":", "i">>
    /\ HasParsed(1) /\ Parsed(1) = JList(<<>>)
    /\ calls[1].pc = "raised"
    /\ calls[1].error = "IndexError"

====
